---- MODULE Spec2Model ----
(***************************************************************************)
(* Model of app.py: the DB class (per-call connection handling and the     *)
(* three query operations over the movies relation) and the Flask view     *)
(* functions index, movie_details, movies and search.                      *)
(*                                                                         *)
(* Strings are sequences of one-character strings, so that the wildcard    *)
(* construction "%" + search_string + "%" and SQL LIKE are computed, not   *)
(* assumed.  A request is received (Receive) and then handled by one       *)
(* atomic action per view function.  The store's faults and its row order  *)
(* are inputs chosen by the environment of each call.                      *)
(***************************************************************************)
EXTENDS Integers, Sequences, FiniteSets, TLC

VARIABLES
  table,   \* the movies relation (a set of rows); never written by the app
  conns,   \* every connection pymysql.connect returned so far: "open"/"closed"
  db,      \* the DB object of the current request: its conn and cur fields
  log,     \* the lines the current request appended to log_file.log
  req,     \* the request being handled
  call,    \* the latest DB.fetch_* call: its arguments and how it ended
  resp     \* the response of the current request

vars == <<table, conns, db, log, req, call, resp>>

-----------------------------------------------------------------------------
(* Bounds *)

\* connections opened over a run
MaxConns == 2
\* largest page / per_page number a request supplies
MaxPage == 3
\* calls made on one DB object when a caller keeps the object
MaxCalls == 2

-----------------------------------------------------------------------------
(* Values *)

\* Python's None for DB.conn (app.py line 51); connection ids start at 1
None == 0

\* PER_PAGE fallback of get_page_args when per_page is missing or 0
DefaultPerPage == 10

Movie(id, title, year) == [movieId |-> id, title |-> title, releaseYear |-> year]

\* the rows a movies table may hold; two rows share a title
MoviePool ==
  { Movie(1, <<"a", "b">>, <<"2", "0">>),
    Movie(2, <<"b">>,      <<"2", "1">>),
    Movie(3, <<"a", "b">>, <<"2", "1">>) }

Min(a, b) == IF a < b THEN a ELSE b
Max(a, b) == IF a > b THEN a ELSE b

-----------------------------------------------------------------------------
(* The relational store: LIKE, ORDER BY, LIMIT/OFFSET, numeric comparison *)

\* collation rank of a character
CharRank(ch) ==
  CASE ch = "%" -> 1 [] ch = "0" -> 2 [] ch = "1" -> 3 [] ch = "2" -> 4
    [] ch = "9" -> 5 [] ch = "_" -> 6 [] ch = "a" -> 7 [] ch = "b" -> 8
    [] ch = "x" -> 9 [] ch = "z" -> 10 [] OTHER -> 11

RECURSIVE StrLess(_, _)
\* s sorts strictly before t
StrLess(s, t) ==
  IF t = <<>> THEN FALSE
  ELSE IF s = <<>> THEN TRUE
  ELSE IF Head(s) = Head(t) THEN StrLess(Tail(s), Tail(t))
  ELSE CharRank(Head(s)) < CharRank(Head(t))

RECURSIVE Like(_, _)
\* SQL: s LIKE p, with % matching any run of characters and _ any one
Like(p, s) ==
  IF p = <<>> THEN s = <<>>
  ELSE IF Head(p) = "%"
       THEN Like(Tail(p), s) \/ (s # <<>> /\ Like(p, Tail(s)))
       ELSE /\ s # <<>>
            /\ (Head(p) = "_" \/ Head(p) = Head(s))
            /\ Like(Tail(p), Tail(s))

\* WHERE title LIKE %(search)s OR releaseYear LIKE %(search)s
SearchPredicate(row, search) ==
  Like(search, row.title) \/ Like(search, row.releaseYear)

RECURSIVE Filter(_, _)
Filter(rows, search) ==
  IF rows = <<>> THEN <<>>
  ELSE IF SearchPredicate(Head(rows), search)
       THEN <<Head(rows)>> \o Filter(Tail(rows), search)
       ELSE Filter(Tail(rows), search)

RECURSIVE Insert(_, _)
\* row put into a title-sorted sequence, after the rows of equal title
Insert(row, sorted) ==
  IF sorted = <<>> THEN <<row>>
  ELSE IF StrLess(row.title, Head(sorted).title)
       THEN <<row>> \o sorted
       ELSE <<Head(sorted)>> \o Insert(row, Tail(sorted))

RECURSIVE OrderByTitle(_)
\* ORDER BY title ASC; rows of equal title keep the scan order
OrderByTitle(rows) ==
  IF rows = <<>> THEN <<>>
  ELSE Insert(rows[Len(rows)], OrderByTitle(SubSeq(rows, 1, Len(rows) - 1)))

\* LIMIT limit OFFSET offset of a row sequence (both non-negative)
LimitOffset(rows, limit, offset) ==
  SubSeq(rows, offset + 1, Min(offset + limit, Len(rows)))

\* the orders in which the store may scan the table
ScanOrders(T) ==
  { f \in [1..Cardinality(T) -> T] : \A i, j \in 1..Cardinality(T) : f[i] = f[j] => i = j }

Digit(ch) ==
  CASE ch = "0" -> 0 [] ch = "1" -> 1 [] ch = "2" -> 2 [] ch = "9" -> 9 [] OTHER -> 0 - 1

RECURSIVE NumPrefix(_, _)
\* the number MySQL reads from the front of a string compared with a number
NumPrefix(s, acc) ==
  IF s = <<>> \/ Digit(Head(s)) < 0 THEN acc
  ELSE NumPrefix(Tail(s), acc * 10 + Digit(Head(s)))

StrToNum(s) == NumPrefix(s, 0)

-----------------------------------------------------------------------------
(* Query texts and cursor.execute *)

CountAllQuery == "SELECT * FROM movies"
CountSearchQuery == "SELECT * FROM movies WHERE title LIKE %(search)s OR releaseYear LIKE %(search)s"
ListQuery == "SELECT * FROM movies ORDER BY title ASC LIMIT %(limit)s OFFSET %(offset)s"
SearchQuery == "SELECT * FROM movies WHERE title LIKE %(search)s OR releaseYear LIKE %(search)s LIMIT %(limit)s OFFSET %(offset)s"
DetailQuery == "SELECT * FROM movies WHERE movieId = %s"

\* the parameters bound into a query; a query reads only the ones it names
Params(limit, offset, search, id) ==
  [limit |-> limit, offset |-> offset, search |-> search, id |-> id]

NoParams == Params(0, 0, <<>>, <<>>)

\* the store rejects a negative LIMIT or OFFSET as a syntax error
BadLimit(params) == params.limit < 0 \/ params.offset < 0

\* the WHERE clause left out of the detail query
WhereId_dropped(rows, n) == rows

RECURSIVE WhereId(_, _)
WhereId(rows, n) ==
  IF rows = <<>> THEN <<>>
  ELSE IF Head(rows).movieId = n
       THEN <<Head(rows)>> \o WhereId(Tail(rows), n)
       ELSE WhereId(Tail(rows), n)

\* the result set of a query over the table scanned in order scan, or an error
Execute(query, params, scan) ==
  CASE query = CountAllQuery ->
         [err |-> FALSE, rows |-> scan]
    [] query = CountSearchQuery ->
         [err |-> FALSE, rows |-> Filter(scan, params.search)]
    [] query = ListQuery ->
         IF BadLimit(params) THEN [err |-> TRUE, rows |-> <<>>]
         ELSE [err |-> FALSE,
               rows |-> LimitOffset(OrderByTitle(scan), params.limit, params.offset)]
    [] query = SearchQuery ->
         IF BadLimit(params) THEN [err |-> TRUE, rows |-> <<>>]
         ELSE [err |-> FALSE,
               rows |-> LimitOffset(Filter(scan, params.search), params.limit, params.offset)]
    [] query = DetailQuery ->
         [err |-> FALSE, rows |-> WhereId(scan, StrToNum(params.id))]

\* cursor.fetchone(): the first row of the result set, <<>> standing for None
FetchOne(rows) == IF rows = <<>> THEN <<>> ELSE <<Head(rows)>>

-----------------------------------------------------------------------------
(* Logging *)

Line(level, msg) == [level |-> level, msg |-> msg]

MsgConnectError == "Error connecting to the database"
MsgConnected == "Successfully connected to the database"
MsgDisconnected == "Disconnected from the database"
MsgRetrieved == "Retrieved data for movies from the database"
MsgRetrieveError == "Error retrieving movie data"
MsgRetrievedOne == "Retrieved movie with ID"
MsgNoMovie == "No movie found with ID"
MsgRetrieveOneError == "Error retrieving movie with ID"

-----------------------------------------------------------------------------
(* class DB.  A context c holds the object's fields, the connections and    *)
(* the log; every method returns the context it leaves and whether it      *)
(* raised pymysql.Error.                                                   *)

\* DB.__init__
DB_init == [exists |-> TRUE, conn |-> None, cur |-> None]

\* no DB object constructed in this request
NoDB == [exists |-> FALSE, conn |-> None, cur |-> None]

Faults == {"none", "connect", "execute1", "execute2"}

\* the environment of one call: the fault the store produces and its scan order
Envs(T) == [fault : Faults, scan : ScanOrders(T)]

\* DB.__connect__
DB_connect(c, env) ==
  IF c.db.conn = None
  THEN IF env.fault # "connect"
       THEN [c |-> [db |-> [c.db EXCEPT !.conn = Len(c.conns) + 1,
                                        !.cur = Len(c.conns) + 1],
                    conns |-> Append(c.conns, "open"),
                    log |-> Append(c.log, Line("INFO", MsgConnected))],
             raised |-> FALSE]
       ELSE [c |-> [c EXCEPT !.log = c.log \o <<Line("ERROR", MsgConnectError),
                                               Line("INFO", MsgConnected)>>],
             raised |-> TRUE]
  ELSE [c |-> [c EXCEPT !.log = Append(c.log, Line("INFO", MsgConnected))],
        raised |-> FALSE]

\* DB.__disconnect__
DB_disconnect(c) ==
  IF c.db.conn # None
  THEN [c EXCEPT !.conns[c.db.conn] = "closed",
                 !.log = Append(c.log, Line("INFO", MsgDisconnected))]
  ELSE c

\* self.cur.execute raises on a cursor that was closed
CursorOpen(c) == c.db.cur # None /\ c.conns[c.db.cur] = "open"

\* what a fetch_* method leaves: context, exception, return value, and the
\* connection its cursor ran on (None when it never reached an execute)
Outcome(c, raised, count, rows, ranOn) ==
  [c |-> c, raised |-> raised, count |-> count, rows |-> rows, ranOn |-> ranOn]

\* the except clause logging the error and returning instead of re-raising
Raise_swallowed(c, msg, ranOn) ==
  Outcome([c EXCEPT !.log = Append(c.log, Line("ERROR", msg))], FALSE, 0, <<>>, ranOn)

Raise(c, msg, ranOn) ==
  Outcome([c EXCEPT !.log = Append(c.log, Line("ERROR", msg))], TRUE, 0, <<>>, ranOn)

\* the two executes shared by fetch_all and fetch_search (lines 85-95, 105-116)
CountThenPage(c, countQuery, query, params, env) ==
  LET first == Execute(countQuery, params, env.scan)
      second == Execute(query, params, env.scan)
  IN  IF ~CursorOpen(c) \/ env.fault = "execute1" \/ first.err
      THEN Raise(c, MsgRetrieveError, c.db.cur)
      ELSE IF env.fault = "execute2" \/ second.err
      THEN Raise(c, MsgRetrieveError, c.db.cur)
      ELSE LET d == DB_disconnect(c)
           IN  Outcome([d EXCEPT !.log = Append(d.log, Line("INFO", MsgRetrieved))],
                       FALSE, Len(first.rows), second.rows, c.db.cur)

\* DB.fetch_all
DB_fetch_all(c, query, params, env) ==
  LET k == DB_connect(c, env)
  IN  IF k.raised THEN Raise(k.c, MsgRetrieveError, None)
      ELSE CountThenPage([k.c EXCEPT !.log = Append(k.c.log, Line("INFO", query))],
                         CountAllQuery, query, params, env)

\* fetch_search counting with fetch_all's unfiltered query
DB_fetch_search_unfiltered_count(c, query, params, env) ==
  DB_fetch_all(c, query, params, env)

\* DB.fetch_search
DB_fetch_search(c, query, params, env) ==
  LET k == DB_connect(c, env)
  IN  IF k.raised THEN Raise(k.c, MsgRetrieveError, None)
      ELSE CountThenPage([k.c EXCEPT !.log = Append(k.c.log, Line("INFO", query))],
                         CountSearchQuery, query, params, env)

\* DB.fetch_one; it has one execute, so the faults "execute1" and "execute2"
\* both strike it
DB_fetch_one(c, query, movie_id, env) ==
  LET k == DB_connect(c, env)
      res == Execute(query, Params(0, 0, <<>>, movie_id), env.scan)
  IN  IF k.raised THEN Raise(k.c, MsgRetrieveOneError, None)
      ELSE IF ~CursorOpen(k.c) \/ env.fault \in {"execute1", "execute2"} \/ res.err
      THEN Raise(k.c, MsgRetrieveOneError, k.c.db.cur)
      ELSE LET d == DB_disconnect(k.c)
               result == FetchOne(res.rows)
           IN  Outcome([d EXCEPT !.log = Append(d.log,
                           IF result # <<>> THEN Line("INFO", MsgRetrievedOne)
                                            ELSE Line("WARNING", MsgNoMovie))],
                       FALSE, Len(result), result, k.c.db.cur)

-----------------------------------------------------------------------------
(* Requests and responses *)

Absent == [kind |-> "absent", val |-> 0]
NotInt == [kind |-> "bad", val |-> 0]
IntArg(n) == [kind |-> "int", val |-> n]

\* a page or per_page query parameter: missing, not a number, or a number
PageArgs == {Absent, NotInt} \cup { IntArg(n) : n \in (0 - 1)..MaxPage }

\* search_string values; <<>> also stands for a missing parameter (line 199)
SearchStrings ==
  { <<>>, <<"a">>, <<"2", "1">>, <<"_", "b">>, <<"%">>, <<"z", "z">> }

\* movie_id path segments
MovieIds == { <<"1">>, <<"2">>, <<"9">>, <<"3", "x">>, <<"x">> }

Req(route, movie_id, search_string, page, per_page) ==
  [route |-> route, movie_id |-> movie_id, search_string |-> search_string,
   page |-> page, per_page |-> per_page]

NoReq == Req("none", <<>>, <<>>, Absent, Absent)

Requests ==
  { Req("/", <<>>, <<>>, Absent, Absent) }
  \cup { Req("/movie", id, <<>>, Absent, Absent) : id \in MovieIds }
  \cup { Req("/movies", <<>>, <<>>, p, k) : p \in PageArgs, k \in PageArgs }
  \cup { Req("/search", <<>>, s, p, k) : s \in SearchStrings, p \in PageArgs, k \in PageArgs }

NoResp ==
  [status |-> "none", template |-> "", location |-> "", page_heading |-> <<>>,
   no_match |-> "", movies |-> <<>>, movie |-> <<>>,
   page |-> 0, per_page |-> 0, total |-> 0, total_pages |-> 0]

\* an exception leaving a view function: Flask answers 500
ServerError == [NoResp EXCEPT !.status = "500"]

NoCall ==
  [op |-> "none", seq |-> 0, query |-> "", params |-> NoParams, fault |-> "none",
   raised |-> FALSE, count |-> 0, rows |-> <<>>, ranOn |-> None, opened |-> {}]

\* the record of one fetch_* call: before is the context it started from
Called(op, seq, query, params, env, before, o) ==
  [op |-> op, seq |-> seq, query |-> query, params |-> params, fault |-> env.fault,
   raised |-> o.raised, count |-> o.count, rows |-> o.rows, ranOn |-> o.ranOn,
   opened |-> (Len(before.conns) + 1)..Len(o.c.conns)]

\* get_page_args with pages counted from 0
get_page_args_zero_based(r) ==
  LET page == IF r.page.kind = "int" THEN r.page.val ELSE 1
      per_page == IF r.per_page.kind = "int" /\ r.per_page.val # 0
                  THEN r.per_page.val ELSE DefaultPerPage
  IN  [page |-> page, per_page |-> per_page, offset |-> page * per_page]

\* flask_paginate.get_page_args as called on lines 165-167 and 205-209
get_page_args(r) ==
  LET page == IF r.page.kind = "int" THEN r.page.val ELSE 1
      per_page == IF r.per_page.kind = "int" /\ r.per_page.val # 0
                  THEN r.per_page.val ELSE DefaultPerPage
  IN  [page |-> page, per_page |-> per_page, offset |-> (page - 1) * per_page]

\* math.ceil(a / b) for b > 0
Ceil(a, b) == 0 - ((0 - a) \div b)

Logged(c, level, msg) == [c EXCEPT !.log = Append(c.log, Line(level, msg))]

-----------------------------------------------------------------------------
(* View functions: each returns the context, the DB call and the response *)

Handled(c, cl, rsp) == [c |-> c, call |-> cl, resp |-> rsp]

\* index
index(c) ==
  Handled(Logged(c, "INFO", "Index page"), NoCall,
          [NoResp EXCEPT !.status = "200", !.template = "index.html"])

\* movie_details
movie_details(c, r, env) ==
  LET c0 == [c EXCEPT !.db = DB_init]
      o == DB_fetch_one(c0, DetailQuery, r.movie_id, env)
      cl == Called("fetch_one", 1, DetailQuery, Params(0, 0, <<>>, r.movie_id), env, c0, o)
  IN  IF o.raised THEN Handled(o.c, cl, ServerError)
      ELSE Handled(o.c, cl,
             [NoResp EXCEPT !.status = "200", !.template = "movie-details.html",
                            !.movie = o.rows])

\* movies
movies(c, r, env) ==
  LET c0 == [Logged(c, "INFO", "All movies page") EXCEPT !.db = DB_init]
      pa == get_page_args(r)
      param_dict == Params(pa.per_page, pa.offset, <<>>, <<>>)
      o == DB_fetch_all(c0, ListQuery, param_dict, env)
      cl == Called("fetch_all", 1, ListQuery, param_dict, env, c0, o)
  IN  IF o.raised THEN Handled(o.c, cl, ServerError)
      ELSE IF o.rows # <<>>
      THEN Handled(Logged(Logged(Logged(o.c, "INFO", "Search results found."),
                                 "INFO", "Total movies"), "INFO", "Total pages"),
                   cl,
                   [NoResp EXCEPT !.status = "200", !.template = "movies.html",
                                  !.movies = o.rows,
                                  !.page_heading = <<"All movies">>,
                                  !.page = pa.page, !.per_page = pa.per_page,
                                  !.total = o.count,
                                  !.total_pages = Ceil(o.count, pa.per_page)])
      ELSE Handled(Logged(o.c, "INFO", "Error getting all movies"), cl,
                   [NoResp EXCEPT !.status = "200", !.template = "movies.html",
                                  !.no_match = "Error getting results."])

\* search, lines 204-244: the branch taken when search_string is truthy
search_query(c, r, env) ==
  LET c0 == [Logged(c, "INFO", "Search string") EXCEPT !.db = DB_init]
      pa == get_page_args(r)
      param_dict == Params(pa.per_page, pa.offset,
                           <<"%">> \o r.search_string \o <<"%">>, <<>>)
      o == DB_fetch_search(c0, SearchQuery, param_dict, env)
      cl == Called("fetch_search", 1, SearchQuery, param_dict, env, c0, o)
  IN  IF o.raised THEN Handled(o.c, cl, ServerError)
      ELSE IF o.rows # <<>>
      THEN Handled(Logged(Logged(Logged(o.c, "INFO", "Search results found."),
                                 "INFO", "Total search results"),
                          "INFO", "Total pages"),
                   cl,
                   [NoResp EXCEPT !.status = "200", !.template = "movies.html",
                      !.movies = o.rows,
                      !.page_heading = <<"\"">> \o r.search_string
                                       \o <<"\" search results">>,
                      !.page = pa.page, !.per_page = pa.per_page,
                      !.total = o.count,
                      !.total_pages = Ceil(o.count, pa.per_page)])
      ELSE Handled(Logged(o.c, "INFO", "No matches found for search."), cl,
                   [NoResp EXCEPT !.status = "200", !.template = "movies.html",
                      !.no_match = "No matches found for your search."])

\* search with the test of search_string dropped
search_unguarded(c, r, env) ==
  search_query(Logged(c, "INFO", "Search string"), r, env)

\* search
search(c, r, env) ==
  LET c1 == Logged(c, "INFO", "Search string")
  IN  IF r.search_string # <<>>
      THEN search_query(c1, r, env)
      ELSE Handled(Logged(c1, "INFO", "No search string provided."), NoCall,
                   [NoResp EXCEPT !.status = "302", !.location = "/"])

-----------------------------------------------------------------------------
(* Actions *)

Ctx == [db |-> db, conns |-> conns, log |-> log]

Pending == req.route # "none" /\ resp.status = "none"

Finish(h) ==
  /\ db' = h.c.db
  /\ conns' = h.c.conns
  /\ log' = h.c.log
  /\ call' = h.call
  /\ resp' = h.resp
  /\ UNCHANGED <<table, req>>

\* a request arrives: nothing of it has run yet
Receive(r) ==
  /\ ~Pending
  /\ Len(conns) < MaxConns
  /\ req' = r
  /\ db' = NoDB
  /\ log' = <<>>
  /\ call' = NoCall
  /\ resp' = NoResp
  /\ UNCHANGED <<table, conns>>

Index ==
  /\ Pending /\ req.route = "/"
  /\ Finish(index(Ctx))

MovieDetails(env) ==
  /\ Pending /\ req.route = "/movie"
  /\ Finish(movie_details(Ctx, req, env))

Movies(env) ==
  /\ Pending /\ req.route = "/movies"
  /\ Finish(movies(Ctx, req, env))

Search(env) ==
  /\ Pending /\ req.route = "/search"
  /\ Finish(search(Ctx, req, env))

Init ==
  /\ table \in SUBSET MoviePool
  /\ conns = <<>>
  /\ db = NoDB
  /\ log = <<>>
  /\ req = NoReq
  /\ call = NoCall
  /\ resp = NoResp

Next ==
  \/ \E r \in Requests : Receive(r)
  \/ Index
  \/ \E env \in Envs(table) : MovieDetails(env)
  \/ \E env \in Envs(table) : Movies(env)
  \/ \E env \in Envs(table) : Search(env)

Spec == Init /\ [][Next]_vars

\* class DB used as its interface allows: a caller that keeps the object of
\* the finished request and calls the same method on it again
CallAgain(env) ==
  /\ ~Pending
  /\ call.op # "none"
  /\ call.seq < MaxCalls
  /\ LET o == CASE call.op = "fetch_all" ->
                     DB_fetch_all(Ctx, call.query, call.params, env)
                [] call.op = "fetch_search" ->
                     DB_fetch_search(Ctx, call.query, call.params, env)
                [] call.op = "fetch_one" ->
                     DB_fetch_one(Ctx, call.query, call.params.id, env)
     IN  /\ db' = o.c.db
         /\ conns' = o.c.conns
         /\ log' = o.c.log
         /\ call' = Called(call.op, call.seq + 1, call.query, call.params, env, Ctx, o)
  /\ UNCHANGED <<table, req, resp>>

NextDB ==
  \/ Next
  \/ \E env \in Envs(table) : CallAgain(env)

SpecDB == Init /\ [][NextDB]_vars

-----------------------------------------------------------------------------
(* Properties *)

Done == req.route # "none" /\ resp.status # "none"

HasLine(level, msg) == \E i \in 1..Len(log) : log[i] = Line(level, msg)

CountLines(msgs) == Cardinality({ i \in 1..Len(log) : log[i].msg \in msgs })

\* the store produced no fault of its own during the latest call
StoreUp == call.fault = "none"

\* every connection the latest call opened is closed
OpenedAreClosed == \A i \in call.opened : conns[i] = "closed"

\* C1: the connection a fetch_* call acquired is released before the call
\* returns or raises, on the success path and on every failure path.
C1_ReleasedOnEveryPath == call.op # "none" => OpenedAreClosed

\* C2: every fetch_* call opens its own connection and runs its queries on
\* it, also a later call on a DB object that an earlier call has used.
C2_OwnConnectionPerCall ==
  (call.op # "none" /\ call.fault # "connect")
    => (call.opened # {} /\ call.ranOn \in call.opened)

\* C3: handling a /search request whose search_string is absent or empty
\* gives a redirect to the index route, creates no DB object, opens no
\* connection and executes no query.
C3_EmptySearchRedirects ==
  [][(Pending /\ req.route = "/search" /\ req.search_string = <<>>)
       => /\ resp'.status = "302" /\ resp'.location = "/"
          /\ ~db'.exists
          /\ conns' = conns
          /\ call' = NoCall
          /\ \A i \in 1..Len(log') :
               log'[i].msg \notin {SearchQuery, CountSearchQuery, MsgConnected}]_vars

C3_Witness ==
  req.route = "/search" /\ req.search_string = <<>> /\ resp.status = "302"

\* C4: with the store reachable, fetch_one returns exactly one record whose
\* movieId is the requested id when such a record exists, and the absent
\* value, without raising, when the id matches no record.
C4_FetchOneById ==
  (Done /\ call.op = "fetch_one" /\ StoreUp)
    => LET n == StrToNum(call.params.id)
       IN  /\ ~call.raised
           /\ resp.movie = call.rows
           /\ IF \E m \in table : m.movieId = n
              THEN /\ Len(call.rows) = 1
                   /\ call.rows[1] \in table
                   /\ call.rows[1].movieId = n
              ELSE call.rows = <<>>

C4_Witness ==
  /\ call.op = "fetch_one" /\ StoreUp /\ ~call.raised
  /\ call.params.id = <<"2">> /\ Len(call.rows) = 1
  /\ Cardinality(table) = 3

IsTitleSorted(rows) ==
  \A i, j \in 1..Len(rows) : i < j => ~StrLess(rows[j].title, rows[i].title)

\* rows are positions first..last of the table in some title-ascending order
IsPageOf(rows, first, last) ==
  \E sorted \in ScanOrders(table) :
    IsTitleSorted(sorted) /\ rows = SubSeq(sorted, first, last)

\* the part of C5 that fetch_all decides: offset, rows and count
ListPage(p, k) ==
  LET N == Cardinality(table)
  IN  /\ call.params.limit = k
      /\ call.params.offset = (p - 1) * k
      /\ ~call.raised
      /\ IsPageOf(call.rows, (p - 1) * k + 1, Min(p * k, N))
      /\ Len(call.rows) <= k
      /\ call.count = N

\* the list page with its rows, total and total_pages
ListView(p, k) ==
  LET N == Cardinality(table)
  IN  /\ resp.status = "200" /\ resp.no_match = ""
      /\ resp.movies = call.rows
      /\ resp.page = p /\ resp.per_page = k
      /\ resp.total = N
      /\ resp.total_pages * k >= N /\ (resp.total_pages - 1) * k < N

ListRequest ==
  /\ Done /\ req.route = "/movies" /\ StoreUp
  /\ get_page_args(req).page >= 1 /\ get_page_args(req).per_page >= 1

\* C5 as stated: for every page p >= 1 and per_page k >= 1 the list view
\* binds offset (p-1)*k, returns positions (p-1)*k+1 .. min(p*k, N) of the
\* table by title, and reports total N and total_pages ceil(N/k).
C5_ListViewEveryPage ==
  ListRequest
    => /\ ListPage(get_page_args(req).page, get_page_args(req).per_page)
       /\ ListView(get_page_args(req).page, get_page_args(req).per_page)

\* C5 amended: offset, rows and fetch_all's count are as stated for every
\* p >= 1, k >= 1; total N and total_pages ceil(N/k) are reported when the
\* page has rows, and the "Error getting results." page otherwise.
C5_ListViewNonEmptyPage ==
  ListRequest
    => LET p == get_page_args(req).page
           k == get_page_args(req).per_page
       IN  /\ ListPage(p, k)
           /\ IF (p - 1) * k < Cardinality(table)
              THEN ListView(p, k)
              ELSE /\ resp.status = "200"
                   /\ resp.no_match = "Error getting results."
                   /\ resp.movies = <<>>
                   /\ resp.total = NoResp.total
                   /\ resp.total_pages = NoResp.total_pages

C5_Witness ==
  /\ ListRequest
  /\ Cardinality(table) = 3
  /\ get_page_args(req).page = 2 /\ get_page_args(req).per_page = 2
  /\ Len(resp.movies) = 1 /\ resp.total = 3 /\ resp.total_pages = 2

\* t occurs in s as a contiguous run
Contains(s, t) ==
  \E i \in 1..(Len(s) - Len(t) + 1) : SubSeq(s, i, i + Len(t) - 1) = t

Matching(pattern) == { m \in table : SearchPredicate(m, pattern) }

C7_SearchThreeOutcomes ==
  (Done /\ req.route = "/search" /\ StoreUp)
    => IF req.search_string = <<>>
       THEN resp.status = "302" /\ resp.location = "/"
       ELSE /\ ~call.raised
            /\ IF call.rows # <<>>
               THEN /\ resp.status = "200" /\ resp.no_match = ""
                    /\ resp.movies = call.rows
                    /\ resp.page_heading
                         = <<"\"">> \o req.search_string \o <<"\" search results">>
               ELSE /\ resp.status = "200"
                    /\ resp.no_match = "No matches found for your search."
                    /\ resp.movies = <<>>

\* C8: a failure to connect or to execute inside a fetch_* call is logged
\* as an error and propagated out of the view function: nothing is
\* returned, nothing is retried and no page is rendered.
C8_FaultPropagates ==
  (Done /\ call.op # "none" /\ (~StoreUp \/ BadLimit(call.params)))
    => /\ call.raised
       /\ call.count = 0 /\ call.rows = <<>>
       /\ CountLines({MsgRetrieveError, MsgRetrieveOneError}) = 1
       /\ \E i \in 1..Len(log) : log[i].level = "ERROR"
       /\ call.fault = "connect" => HasLine("ERROR", MsgConnectError)
       /\ CountLines({MsgConnected}) = 1
       /\ Cardinality(call.opened) <= 1
       /\ resp.status = "500"
       /\ resp.template = "" /\ resp.no_match = "" /\ resp.movies = <<>>

C8_Witness ==
  /\ Done /\ req.route = "/movies" /\ call.fault = "execute2"
  /\ call.raised /\ resp.status = "500"

\* C9: the pagination state the list and search handlers derive always has
\* page >= 1, per_page >= 1 and offset = (page-1)*per_page >= 0, so the
\* bound limit and offset are never negative.
C9_PaginationNonNegative ==
  (Done /\ call.op \in {"fetch_all", "fetch_search"})
    => /\ get_page_args(req).page >= 1
       /\ get_page_args(req).per_page >= 1
       /\ call.params.limit >= 1
       /\ call.params.offset = (get_page_args(req).page - 1) * call.params.limit
       /\ call.params.offset >= 0

\* C10: every fetch_* call logs its query text and its outcome before it
\* returns or raises, also when connecting fails, and logs no success
\* message for a step that failed.
C10_LogsQueryAndOutcome ==
  (Done /\ call.op # "none")
    => /\ HasLine("INFO", call.query)
       /\ IF call.raised
          THEN \E i \in 1..Len(log) : log[i].level = "ERROR"
          ELSE CountLines({MsgRetrieved, MsgRetrievedOne, MsgNoMovie}) = 1
       /\ call.fault = "connect" => ~HasLine("INFO", MsgConnected)
       /\ call.raised => CountLines({MsgRetrieved, MsgRetrievedOne}) = 0

====
